---- MODULE Spec2Model ----
(***************************************************************************)
(* Model of the ResultStore batch writer (package writer): the New         *)
(* handshake, the typed write operations, Finalize, and the retried        *)
(* UploadBatch flush with its resume-token rotation.                       *)
(***************************************************************************)
EXTENDS Integers, Sequences, FiniteSets, TLC

VARIABLES
    pc,           \* position of the single caller thread inside New / a write
    op,           \* public operation being executed or last executed
    resumeToken,  \* w.resumeToken
    updates,      \* w.updates
    finalized,    \* w.finalized
    uuid,         \* number of tokens resumeToken() has generated so far
    b,            \* the UploadBatchRequest built by flushUpdates
    attempts,     \* times the retry loop of the current call sequence ran its condition
    lastRpcErr,   \* status code of the latest remote call of the call sequence
    loopErr,      \* value returned by the latest wait.ExponentialBackoffWithContext
    err,          \* New's local err (result of createInvocation)
    ret,          \* error returned to the caller by the latest public operation
    ctxDone,      \* the context of the running operation is cancelled / past its deadline
    calls,        \* remote requests issued by the current (or latest) public operation
    acked,        \* UploadBatch requests the service answered successfully, in order
    handshakeToken, \* w.resumeToken at the moment New returned the writer
    written,      \* create envelopes accepted so far (gives each envelope its Id)
    flushes,      \* flushUpdates calls started so far
    cErr,         \* the error a caller of IsPermanentError is classifying
    cClass,       \* what IsPermanentError answered for cErr ("none" before the call)
    cLog,         \* the <<error, answer>> pairs of the classifications made so far
    hpc,          \* position of handleClose
    ev,           \* the GenericCommentEvent handleClose was called with
    collab,       \* what gc.IsCollaborator returned
    labelsRes,    \* what gc.GetIssueLabels returned
    ghCalls,      \* the calls handleClose has made on its closeClient, in order
    hret          \* the error handleClose returned

\* the variables of a caller that classifies errors with IsPermanentError
cvars == <<cErr, cClass, cLog>>

\* the variables of the lifecycle plugin's handleClose
hvars == <<hpc, ev, collab, labelsRes, ghCalls, hret>>

vars == <<pc, op, resumeToken, updates, finalized, uuid, b, attempts, lastRpcErr,
          loopErr, err, ret, ctxDone, calls, acked, handshakeToken, written, flushes,
          cErr, cClass, cLog, hpc, ev, collab, labelsRes, ghCalls, hret>>

----------------------------------------------------------------------------
(* Program constants and model bounds *)

batchSize == 100

Steps == 8

MaxFlushes == 2

----------------------------------------------------------------------------
(* gRPC status codes and error values *)

PermanentCodes ==
    {"AlreadyExists", "NotFound", "InvalidArgument", "FailedPrecondition",
     "Unimplemented", "PermissionDenied"}

TransientCodes ==
    {"Canceled", "Unknown", "DeadlineExceeded", "ResourceExhausted", "Aborted",
     "OutOfRange", "Internal", "Unavailable", "DataLoss", "Unauthenticated"}

Codes == {"OK"} \cup PermanentCodes \cup TransientCodes

\* the status codes the remote calls of the model answer with
RpcCodes ==
    {"OK", "AlreadyExists", "NotFound", "FailedPrecondition", "Unavailable",
     "DeadlineExceeded"}

\* errors that carry no gRPC status
ErrWaitTimeout == "ErrWaitTimeout"
CtxErr == "CtxErr"
ErrAfterFinalized == "ErrAfterFinalized"
nil == "nil"

\* status.FromError(err) followed by status.Code(): nil is OK, an error that
\* carries no status is Unknown
StatusCode(e) ==
    IF e = nil THEN "OK"
    ELSE IF e \in Codes THEN e
    ELSE "Unknown"

IsPermanentErrorNoUnimplemented(e) ==
    StatusCode(e) \in {"AlreadyExists", "NotFound", "InvalidArgument",
                       "FailedPrecondition", "PermissionDenied"}

IsPermanentError(e) ==
    CASE StatusCode(e) = "AlreadyExists" -> TRUE
      [] StatusCode(e) = "NotFound" -> TRUE
      [] StatusCode(e) = "InvalidArgument" -> TRUE
      [] StatusCode(e) = "FailedPrecondition" -> TRUE
      [] StatusCode(e) = "Unimplemented" -> TRUE
      [] StatusCode(e) = "PermissionDenied" -> TRUE
      [] OTHER -> FALSE

IsAlreadyExistsErrAny(e) == StatusCode(e) # "OK"

IsAlreadyExistsErr(e) == StatusCode(e) = "AlreadyExists"

onlyPermanentErrorAlways(e) == e

onlyPermanentError(e) == IF IsPermanentError(e) THEN e ELSE nil

----------------------------------------------------------------------------
(* Tokens, envelopes and requests *)

Tok(src, n) == [src |-> src, n |-> n]

NoToken == Tok("none", 0)

\* resumeToken(): a token no earlier call has produced
FreshToken == Tok("uuid", uuid + 1)

\* tokens GetInvocationUploadMetadata may report for an invocation created earlier
ServiceTokens == {Tok("service", 1)}

Resources == <<"Configuration", "Target", "ConfiguredTarget", "Action">>

\* the caller writes the four resource kinds in rotation
NextResource == Resources[(written % Len(Resources)) + 1]

createUploadRequest(kind) ==
    [UploadOperation |-> "CREATE", Resource |-> kind, Id |-> written + 1]

finalizeRequest ==
    [UploadOperation |-> "FINALIZE", Resource |-> "Invocation", Id |-> 0]

Request(rpc, tok, next, reqs) ==
    [rpc |-> rpc, ResumeToken |-> tok, NextResumeToken |-> next, UploadRequests |-> reqs]

NoRequest == Request("none", NoToken, NoToken, <<>>)

createInvocationRequestFreshToken ==
    Request("CreateInvocation", FreshToken, NoToken, <<>>)

createInvocationRequest == Request("CreateInvocation", resumeToken, NoToken, <<>>)

touchInvocationRequest == Request("TouchInvocation", NoToken, NoToken, <<>>)

getInvocationUploadMetadataRequest ==
    Request("GetInvocationUploadMetadata", NoToken, NoToken, <<>>)

uploadBatchRequest(reqs) == Request("UploadBatch", resumeToken, FreshToken, reqs)

\* w.resumeToken after uploadBatchRequest built req
TokenAfterBuild(req) == req.NextResumeToken

----------------------------------------------------------------------------
(* The retry loop *)

InLoop == {"create", "touch", "meta", "flush"}

\* What wait.ExponentialBackoffWithContext does after its condition returned
\* (ok, e) on run number n: return e, give up with ErrWaitTimeout, or go on.
BackoffReturnsNever(ok, e, n) == [done |-> ok \/ e # nil, err |-> e]

ExponentialBackoffWithContext(ok, e, n) ==
    IF ok \/ e # nil THEN [done |-> TRUE, err |-> e]
    ELSE IF n >= Steps THEN [done |-> TRUE, err |-> ErrWaitTimeout]
    ELSE [done |-> FALSE, err |-> nil]

\* the condition of createInvocation / touchInvocation / retrieveResumeToken
handshakeCond(code) ==
    IF code # "OK" THEN [ok |-> FALSE, err |-> onlyPermanentError(code)]
    ELSE [ok |-> TRUE, err |-> nil]

flushCondRetryAll(code) ==
    [ok |-> code = "OK", err |-> nil]

\* the condition of flushUpdates
flushCond(code) ==
    IF code # "OK"
    THEN (IF IsPermanentError(code) THEN [ok |-> FALSE, err |-> code]
          ELSE [ok |-> FALSE, err |-> nil])
    ELSE [ok |-> TRUE, err |-> nil]

UpdatesAfterSuccessKept == updates

\* w.updates after a successful UploadBatch
UpdatesAfterSuccess == <<>>

----------------------------------------------------------------------------
(* New *)

WriterInit ==
    /\ pc = "create"
    /\ op = "New"
    /\ resumeToken = Tok("uuid", 1)
    /\ updates = <<>>
    /\ finalized = FALSE
    /\ uuid = 1
    /\ b = NoRequest
    /\ attempts = 0
    /\ lastRpcErr = "OK"
    /\ loopErr = nil
    /\ err = nil
    /\ ret = nil
    /\ ctxDone = FALSE
    /\ calls = <<>>
    /\ acked = <<>>
    /\ handshakeToken = NoToken
    /\ written = 0
    /\ flushes = 0

\* a result of gc.IsCollaborator not yet asked for
NoCollab == [ok |-> FALSE, err |-> nil]

\* a result of gc.GetIssueLabels not yet asked for
NoLabels == [labels |-> {}, err |-> nil]

\* no comment event is being handled
NoEvent == [IssueState |-> "closed", Action |-> "deleted", Body |-> <<>>,
            IsPR |-> FALSE, IsAuthor |-> FALSE]

\* handleClose is not running
HandlerIdle ==
    /\ hpc = "done"
    /\ ev = NoEvent
    /\ collab = NoCollab
    /\ labelsRes = NoLabels
    /\ ghCalls = <<>>
    /\ hret = nil

Init ==
    /\ WriterInit
    /\ cErr = nil
    /\ cClass = "none"
    /\ cLog = <<>>
    /\ HandlerIdle

\* one run of the condition of a handshake retry loop
HandshakeAttempt(at, after, req, code) ==
    LET c == handshakeCond(code)
        r == ExponentialBackoffWithContext(c.ok, c.err, attempts + 1)
    IN  /\ pc = at
        /\ ~ctxDone
        /\ attempts < Steps
        /\ calls' = Append(calls, req)
        /\ attempts' = attempts + 1
        /\ lastRpcErr' = code
        /\ loopErr' = r.err
        /\ pc' = IF r.done THEN after ELSE at

CreateInvocationAttempt ==
    \E code \in RpcCodes :
        /\ HandshakeAttempt("create", "created", createInvocationRequest, code)
        /\ UNCHANGED <<cvars, hvars>>
        /\ UNCHANGED <<op, resumeToken, updates, finalized, uuid, b, err, ret, ctxDone,
                       acked, handshakeToken, written, flushes>>

TouchInvocationAttempt ==
    \E code \in RpcCodes :
        /\ HandshakeAttempt("touch", "touched", touchInvocationRequest, code)
        /\ UNCHANGED <<cvars, hvars>>
        /\ UNCHANGED <<op, resumeToken, updates, finalized, uuid, b, err, ret, ctxDone,
                       acked, handshakeToken, written, flushes>>

TokenAfterRetrieveKept(code, t) == resumeToken

\* retrieveResumeToken, lines 186-190: w.resumeToken after one answer of the service
TokenAfterRetrieve(code, t) == IF code # "OK" THEN resumeToken ELSE t

GetInvocationUploadMetadataAttempt ==
    \E code \in RpcCodes, t \in ServiceTokens :
        /\ HandshakeAttempt("meta", "retrieved", getInvocationUploadMetadataRequest, code)
        /\ UNCHANGED <<cvars, hvars>>
        /\ resumeToken' = TokenAfterRetrieve(code, t)
        /\ UNCHANGED <<op, updates, finalized, uuid, b, err, ret, ctxDone,
                       acked, handshakeToken, written, flushes>>

\* New, line 131: createInvocation has returned
NewAfterCreate ==
    /\ pc = "created"
    /\ err' = loopErr
    /\ IF loopErr = nil
       THEN /\ pc' = "ready"
            /\ ret' = nil
            /\ handshakeToken' = resumeToken
            /\ UNCHANGED <<attempts, lastRpcErr>>
       ELSE IF ~IsAlreadyExistsErr(loopErr)
       THEN /\ pc' = "failed"
            /\ ret' = loopErr
            /\ UNCHANGED <<handshakeToken, attempts, lastRpcErr>>
       ELSE /\ pc' = "touch"
            /\ attempts' = 0
            /\ lastRpcErr' = "OK"
            /\ UNCHANGED <<ret, handshakeToken>>
    /\ UNCHANGED <<op, resumeToken, updates, finalized, uuid, b, loopErr, ctxDone,
                   calls, acked, written, flushes>>
    /\ UNCHANGED <<cvars, hvars>>

ErrAfterPermanentTouchIsTouchErr == loopErr

\* New, line 141: the error New returns when touchInvocation failed permanently
ErrAfterPermanentTouch == err

\* New, line 138: touchInvocation has returned
NewAfterTouch ==
    /\ pc = "touched"
    /\ IF IsPermanentError(loopErr)
       THEN /\ pc' = "failed"
            /\ ret' = ErrAfterPermanentTouch
            /\ UNCHANGED <<attempts, lastRpcErr>>
       ELSE /\ pc' = "meta"
            /\ attempts' = 0
            /\ lastRpcErr' = "OK"
            /\ UNCHANGED ret
    /\ UNCHANGED <<op, resumeToken, updates, finalized, uuid, b, loopErr, err, ctxDone,
                   calls, acked, handshakeToken, written, flushes>>
    /\ UNCHANGED <<cvars, hvars>>

\* New, line 144: retrieveResumeToken has returned
NewAfterRetrieve ==
    /\ pc = "retrieved"
    /\ err' = loopErr
    /\ IF loopErr # nil
       THEN /\ pc' = "failed"
            /\ ret' = loopErr
            /\ UNCHANGED handshakeToken
       ELSE /\ pc' = "ready"
            /\ ret' = nil
            /\ handshakeToken' = resumeToken
    /\ UNCHANGED <<op, resumeToken, updates, finalized, uuid, b, attempts, lastRpcErr,
                   loopErr, ctxDone, calls, acked, written, flushes>>
    /\ UNCHANGED <<cvars, hvars>>

----------------------------------------------------------------------------
(* Writes and the flush *)

RejectsNothing == FALSE

\* addUploadRequest, line 247
RejectsAppend == finalized

FinalizedNeverSet(r) == finalized

\* addUploadRequest, lines 250-252
FinalizedAfterAppend(r) == finalized \/ r.UploadOperation = "FINALIZE"

ReturnsEarlyUpToBatch(fin, ups) == ~fin /\ Len(ups) <= batchSize

\* addUploadRequest, line 254: return without flushing
ReturnsEarly(fin, ups) == ~fin /\ Len(ups) < batchSize

addUploadRequest(name, r) ==
    /\ pc = "ready"
    /\ op' = name
    /\ IF RejectsAppend
       THEN /\ ret' = ErrAfterFinalized
            /\ calls' = <<>>
            /\ attempts' = 0
            /\ lastRpcErr' = "OK"
            /\ loopErr' = nil
            /\ ctxDone' = FALSE
            /\ b' = NoRequest
            /\ UNCHANGED <<pc, resumeToken, updates, finalized, uuid, written, flushes>>
       ELSE LET fin == FinalizedAfterAppend(r)
                ups == Append(updates, r)
                req == uploadBatchRequest(ups)
            IN  /\ finalized' = fin
                /\ updates' = ups
                /\ written' = IF r.UploadOperation = "CREATE" THEN written + 1 ELSE written
                /\ calls' = <<>>
                /\ attempts' = 0
                /\ lastRpcErr' = "OK"
                /\ loopErr' = nil
                /\ ctxDone' = FALSE
                /\ IF ReturnsEarly(fin, ups)
                   THEN /\ ret' = nil
                        /\ b' = NoRequest
                        /\ UNCHANGED <<pc, resumeToken, uuid, flushes>>
                   ELSE \* flushUpdates, line 261
                        /\ flushes < MaxFlushes
                        /\ b' = req
                        /\ resumeToken' = TokenAfterBuild(req)
                        /\ uuid' = uuid + 1
                        /\ flushes' = flushes + 1
                        /\ pc' = "flush"
                        /\ UNCHANGED ret
    /\ UNCHANGED <<err, acked, handshakeToken>>
    /\ UNCHANGED <<cvars, hvars>>

WriteConfiguration ==
    /\ finalized \/ NextResource = "Configuration"
    /\ addUploadRequest("WriteConfiguration", createUploadRequest("Configuration"))

WriteTarget ==
    /\ finalized \/ NextResource = "Target"
    /\ addUploadRequest("WriteTarget", createUploadRequest("Target"))

WriteConfiguredTarget ==
    /\ finalized \/ NextResource = "ConfiguredTarget"
    /\ addUploadRequest("WriteConfiguredTarget", createUploadRequest("ConfiguredTarget"))

WriteAction ==
    /\ finalized \/ NextResource = "Action"
    /\ addUploadRequest("WriteAction", createUploadRequest("Action"))

Finalize == addUploadRequest("Finalize", finalizeRequest)

\* one run of the condition of flushUpdates, lines 265-274
UploadBatchAttempt ==
    \E code \in RpcCodes :
        LET c == flushCond(code)
            r == ExponentialBackoffWithContext(c.ok, c.err, attempts + 1)
        IN  /\ pc = "flush"
            /\ ~ctxDone
            /\ attempts < Steps
            /\ calls' = Append(calls, b)
            /\ attempts' = attempts + 1
            /\ lastRpcErr' = code
            /\ updates' = IF c.ok THEN UpdatesAfterSuccess ELSE updates
            /\ acked' = IF code = "OK" THEN Append(acked, b) ELSE acked
            /\ loopErr' = r.err
            /\ IF r.done
               THEN pc' = "ready" /\ ret' = r.err
               ELSE UNCHANGED <<pc, ret>>
            /\ UNCHANGED <<op, resumeToken, finalized, uuid, b, err, ctxDone,
                           handshakeToken, written, flushes>>
            /\ UNCHANGED <<cvars, hvars>>

BackoffIgnoresCtx == [done |-> FALSE, err |-> loopErr]

\* what wait.ExponentialBackoffWithContext does when it finds the context it
\* was given (lines 127, 162, 173, 184, 262-264) done
BackoffOnCtxDone == [done |-> TRUE, err |-> CtxErr]

\* the retry loop finds its context done, before a run of the condition or
\* while it waits for the next one
CtxDone ==
    /\ pc \in InLoop
    /\ ctxDone' = TRUE
    /\ loopErr' = BackoffOnCtxDone.err
    /\ pc' = IF ~BackoffOnCtxDone.done THEN pc
             ELSE CASE pc = "create" -> "created"
                    [] pc = "touch" -> "touched"
                    [] pc = "meta" -> "retrieved"
                    [] pc = "flush" -> "ready"
    /\ ret' = IF pc = "flush" /\ BackoffOnCtxDone.done THEN BackoffOnCtxDone.err ELSE ret
    /\ UNCHANGED <<op, resumeToken, updates, finalized, uuid, b, attempts, lastRpcErr,
                   err, calls, acked, handshakeToken, written, flushes>>
    /\ UNCHANGED <<cvars, hvars>>

Next ==
    \/ CreateInvocationAttempt
    \/ TouchInvocationAttempt
    \/ GetInvocationUploadMetadataAttempt
    \/ NewAfterCreate
    \/ NewAfterTouch
    \/ NewAfterRetrieve
    \/ WriteConfiguration
    \/ WriteTarget
    \/ WriteConfiguredTarget
    \/ WriteAction
    \/ Finalize
    \/ UploadBatchAttempt
    \/ CtxDone

Spec == Init /\ [][Next]_vars

----------------------------------------------------------------------------
(* Type invariant *)

TypeOK ==
    /\ pc \in InLoop \cup {"created", "touched", "retrieved", "ready", "failed"}
    /\ finalized \in BOOLEAN
    /\ attempts \in 0..Steps
    /\ flushes \in 0..MaxFlushes
    /\ lastRpcErr \in Codes

\* fairness: the caller thread keeps running while a step is possible
FairSpec == Spec /\ WF_vars(Next)

----------------------------------------------------------------------------
(* A caller that classifies errors with IsPermanentError *)

MaxClassified == 2

\* nil, every gRPC status, and the errors of the model that carry no status
AllErrors == {nil} \cup Codes \cup {ErrWaitTimeout, CtxErr, ErrAfterFinalized}

writerVars == <<pc, op, resumeToken, updates, finalized, uuid, b, attempts, lastRpcErr,
                loopErr, err, ret, ctxDone, calls, acked, handshakeToken, written, flushes>>

ClassifyInit ==
    /\ WriterInit
    /\ cErr \in AllErrors
    /\ cClass = "none"
    /\ cLog = <<>>
    /\ HandlerIdle

\* the caller asks IsPermanentError about cErr
Classify ==
    /\ cClass = "none"
    /\ cClass' = IF IsPermanentError(cErr) THEN "permanent" ELSE "transient"
    /\ cLog' = Append(cLog, <<cErr, cClass'>>)
    /\ UNCHANGED <<cErr, writerVars, hvars>>

\* the caller gets another error to classify
NextError ==
    /\ cClass # "none"
    /\ Len(cLog) < MaxClassified
    /\ \E e \in AllErrors : cErr' = e
    /\ cClass' = "none"
    /\ UNCHANGED <<cLog, writerVars, hvars>>

ClassifyNext ==
    \/ Classify
    \/ NextError

ClassifySpec == ClassifyInit /\ [][ClassifyNext]_vars

-----------------------------------------------------------------------------
(* The lifecycle plugin's close handler: handleClose and isActive *)

\* an error returned by a call on the GitHub client
GhErr == "github: request failed"

\* a comment body is a sequence of lines, a line a sequence of characters
closeWord == <<"/", "c", "l", "o", "s", "e">>

notPlannedWord == closeWord \o <<" ", "n", "o", "t", "-", "p", "l", "a", "n", "n", "e", "d">>

\* the case folding of the (?i) flag, over the letters of the two commands
Lower(c) ==
    CASE c = "C" -> "c" [] c = "L" -> "l" [] c = "O" -> "o" [] c = "S" -> "s"
      [] c = "E" -> "e" [] c = "N" -> "n" [] c = "T" -> "t" [] c = "P" -> "p"
      [] c = "A" -> "a" [] c = "D" -> "d" [] OTHER -> c

\* the characters \s matches inside a line
IsSpace(c) == c \in {" ", "\t", "\r"}

\* ^word\s*$ on one line, case-insensitively
LineMatches(line, word) ==
    /\ Len(line) >= Len(word)
    /\ \A i \in 1..Len(word) : Lower(line[i]) = word[i]
    /\ \A i \in (Len(word) + 1)..Len(line) : IsSpace(line[i])

\* closeRe.MatchString: (?mi)^/close\s*$ matches some line of the body
closeRe(body) == \E i \in DOMAIN body : LineMatches(body[i], closeWord)

\* closeNotPlannedRe.MatchString: (?mi)^/close not-planned\s*$
closeNotPlannedRe(body) == \E i \in DOMAIN body : LineMatches(body[i], notPlannedWord)

\* the comment bodies handleClose is called with
Bodies ==
    { << <<"/", "c", "l", "o", "s", "e">> >>,
      << <<"/", "C", "L", "O", "S", "E", " ", "\t">> >>,
      << <<"/", "c", "l", "o", "s", "e", " ", "n", "o", "t", "-", "p", "l", "a", "n", "n", "e", "d">> >>,
      << <<"t", "h", "x">>,
         <<"/", "C", "l", "o", "s", "e", " ", "N", "o", "t", "-", "P", "l", "a", "n", "n", "e", "d", " ">> >>,
      << <<"/", "c", "l", "o", "s", "e", "d">> >>,
      << <<" ", "/", "c", "l", "o", "s", "e">> >>,
      << <<"/", "c", "l", "o", "s", "e", " ", "n", "o", "w">> >>,
      << <<"l", "g", "t", "m">> >> }

\* the events: state of the issue, action on the comment, body, issue or PR,
\* and whether e.IssueAuthor.Login is e.User.Login
Events ==
    [IssueState : {"open", "closed"}, Action : {"created", "edited", "deleted"},
     Body : Bodies, IsPR : BOOLEAN, IsAuthor : BOOLEAN]

LabelNames == {"lifecycle/stale", "lifecycle/rotten", "kind/bug"}

\* what the client's IsCollaborator returns: an answer, or false with an error
IsCollaboratorResults ==
    {[ok |-> TRUE, err |-> nil], [ok |-> FALSE, err |-> nil], [ok |-> FALSE, err |-> GhErr]}

\* what the client's GetIssueLabels returns: the labels, or none with an error
GetIssueLabelsResults ==
    {[labels |-> L, err |-> nil] : L \in SUBSET LabelNames}
        \cup {[labels |-> {}, err |-> GhErr]}

\* what a call that changes the issue or comments on it returns
ClientErrs == {nil, GhErr}

\* github.HasLabel
HasLabel(label, labels) == label \in labels

\* isActive, from the result r of gc.GetIssueLabels
isActive(r) ==
    IF r.err # nil
    THEN [active |-> TRUE, err |-> "list issue labels error"]
    ELSE IF \E label \in {"lifecycle/stale", "lifecycle/rotten"} : HasLabel(label, r.labels)
         THEN [active |-> FALSE, err |-> nil]
         ELSE [active |-> TRUE, err |-> nil]

\* isAuthor of handleClose
isAuthor == ev.IsAuthor

\* isCollaborator of handleClose: the value returned, whatever the error
isCollaborator == collab.ok

ActiveFailsInactive(r) ==
    LET a == isActive(r) IN IF a.err # nil THEN FALSE ELSE a.active

\* active of handleClose: the answer of isActive, true when it failed
Active(r) ==
    LET a == isActive(r) IN IF a.err # nil THEN TRUE ELSE a.active

\* the condition under which handleClose refuses
Denied == ~isAuthor /\ ~isCollaborator /\ Active(labelsRes)

deniedResponse == "You can't close an active issue/PR unless you authored it or you are a collaborator."

notPlannedPRResponse == "PRs cannot be closed as Not Planned."

closedPRResponse == "Closed this PR."

closingNotPlannedResponse == "Closing this issue, marking it as \"Not Planned\"."

closingResponse == "Closing this issue."

\* a call on the closeClient, with the response text of a CreateComment
Call(name, text) == [call |-> name, text |-> text]

CloseInit ==
    /\ WriterInit
    /\ cErr = nil
    /\ cClass = "none"
    /\ cLog = <<>>
    /\ hpc = "start"
    /\ ev \in Events
    /\ collab = NoCollab
    /\ labelsRes = NoLabels
    /\ ghCalls = <<>>
    /\ hret = nil

\* the early returns: the issue is not open, the comment is not new, or the
\* body holds neither command
HandleCloseFilter ==
    /\ hpc = "start"
    /\ IF ev.IssueState # "open" \/ ev.Action # "created"
       THEN hpc' = "done"
       ELSE IF ~closeRe(ev.Body) /\ ~closeNotPlannedRe(ev.Body)
            THEN hpc' = "done"
            ELSE hpc' = "IsCollaborator"
    /\ UNCHANGED <<ev, collab, labelsRes, ghCalls, hret, writerVars, cvars>>

\* gc.IsCollaborator; its error is logged and nothing else
CallIsCollaborator ==
    /\ hpc = "IsCollaborator"
    /\ \E r \in IsCollaboratorResults : collab' = r
    /\ ghCalls' = Append(ghCalls, Call("IsCollaborator", ""))
    /\ hpc' = "isActive"
    /\ UNCHANGED <<ev, labelsRes, hret, writerVars, cvars>>

\* isActive, which calls gc.GetIssueLabels
CallIsActive ==
    /\ hpc = "isActive"
    /\ \E r \in GetIssueLabelsResults : labelsRes' = r
    /\ ghCalls' = Append(ghCalls, Call("GetIssueLabels", ""))
    /\ hpc' = "respond"
    /\ UNCHANGED <<ev, collab, hret, writerVars, cvars>>

\* the refusal: one comment, whose error is handleClose's result
HandleCloseDenied ==
    /\ hpc = "respond"
    /\ Denied
    /\ \E e \in ClientErrs :
        /\ ghCalls' = Append(ghCalls, Call("CreateComment", deniedResponse))
        /\ hret' = e
    /\ hpc' = "done"
    /\ UNCHANGED <<ev, collab, labelsRes, writerVars, cvars>>

\* a pull request: not-planned is answered with a comment, otherwise the PR
\* is closed and, when that worked, a comment says so
HandleClosePR ==
    /\ hpc = "respond"
    /\ ~Denied
    /\ ev.IsPR
    /\ IF closeNotPlannedRe(ev.Body)
       THEN \E e \in ClientErrs :
               /\ ghCalls' = Append(ghCalls, Call("CreateComment", notPlannedPRResponse))
               /\ hret' = e
       ELSE \E ce \in ClientErrs, e \in ClientErrs :
               IF ce # nil
               THEN /\ ghCalls' = Append(ghCalls, Call("ClosePullRequest", ""))
                    /\ hret' = "Error closing PR"
               ELSE /\ ghCalls' = ghCalls \o <<Call("ClosePullRequest", ""),
                                               Call("CreateComment", closedPRResponse)>>
                    /\ hret' = e
    /\ hpc' = "done"
    /\ UNCHANGED <<ev, collab, labelsRes, writerVars, cvars>>

\* an issue: closed as not planned or closed, and, when that worked, a comment
HandleCloseIssue ==
    /\ hpc = "respond"
    /\ ~Denied
    /\ ~ev.IsPR
    /\ LET notPlanned == closeNotPlannedRe(ev.Body)
           close == IF notPlanned THEN "CloseIssueAsNotPlanned" ELSE "CloseIssue"
           reply == IF notPlanned THEN closingNotPlannedResponse ELSE closingResponse
       IN \E ce \in ClientErrs, e \in ClientErrs :
               IF ce # nil
               THEN /\ ghCalls' = Append(ghCalls, Call(close, ""))
                    /\ hret' = "Error closing issue"
               ELSE /\ ghCalls' = ghCalls \o <<Call(close, ""), Call("CreateComment", reply)>>
                    /\ hret' = e
    /\ hpc' = "done"
    /\ UNCHANGED <<ev, collab, labelsRes, writerVars, cvars>>

CloseNext ==
    \/ HandleCloseFilter
    \/ CallIsCollaborator
    \/ CallIsActive
    \/ HandleCloseDenied
    \/ HandleClosePR
    \/ HandleCloseIssue

CloseSpec == CloseInit /\ [][CloseNext]_vars

----------------------------------------------------------------------------
(* Vocabulary of the properties *)

WriteOps == {"WriteConfiguration", "WriteTarget", "WriteConfiguredTarget", "WriteAction"}

IsFinalizeMarker(r) == r.UploadOperation = "FINALIZE"

\* the latest public operation ran flushUpdates and flushUpdates has returned
FlushReturned == pc = "ready" /\ b # NoRequest

FlushFailed == FlushReturned /\ ret # nil

FlushSucceeded == FlushReturned /\ ret = nil

\* a retry loop has just returned to the function that started it
LoopReturned == pc \in {"created", "touched", "retrieved"} \/ FlushReturned

\* the token the service expects next: the NextResumeToken of the latest
\* acknowledged batch, or the token the handshake established
ExpectedToken ==
    IF acked = <<>> THEN handshakeToken ELSE acked[Len(acked)].NextResumeToken

\* a step in which a not yet finalized writer accepts a create envelope
WriteStep == pc = "ready" /\ ~finalized /\ written' = written + 1

\* a step in which a not yet finalized writer runs Finalize
FinalizeStep == pc = "ready" /\ ~finalized /\ op' = "Finalize"

\* a step that runs the condition of a retry loop once
AttemptStep == attempts' = attempts + 1

----------------------------------------------------------------------------
(* C1 *)

\* C1: after a flush that ended in failure, the buffer and the writer's
\* current resume token are what they were right before the flush started
\* (b.UploadRequests and b.ResumeToken are the buffer and the token
\* flushUpdates found when it started).
C1_FailedFlushRestoresState ==
    FlushFailed => (updates = b.UploadRequests /\ resumeToken = b.ResumeToken)

----------------------------------------------------------------------------
(* C2 *)

\* C2: every UploadBatch request in flight carries as ResumeToken the
\* NextResumeToken of the latest acknowledged request, or the handshake's
\* token when no flush has succeeded yet.
C2_RequestCarriesExpectedToken ==
    pc = "flush" =>
        /\ b.ResumeToken = ExpectedToken
        /\ \A i \in 1..Len(calls) : calls[i].ResumeToken = ExpectedToken

----------------------------------------------------------------------------
(* C3 *)

\* C3: once the writer is finalized, every later call on it returns the
\* after-finalized error, issues no remote call, and leaves the buffer, the
\* latch and the acknowledged batches as they were.
C3_WriteAfterFinalizedRejected ==
    [][(pc = "ready" /\ finalized) =>
          /\ ret' = ErrAfterFinalized
          /\ updates' = updates
          /\ calls' = <<>>
          /\ pc' = "ready"
          /\ acked' = acked
          /\ resumeToken' = resumeToken
          /\ finalized']_vars

C3_Witness ==
    /\ finalized
    /\ pc = "ready"
    /\ op \in WriteOps
    /\ ret = ErrAfterFinalized
    /\ Len(updates) > 1

----------------------------------------------------------------------------
(* C4 *)

\* C4 as stated: whenever a non-finalize write has issued a flush, the buffer
\* holds at most batchSize envelopes.
C4_BufferNeverExceedsBatch ==
    (pc = "flush" /\ op \in WriteOps) => Len(updates) <= batchSize

\* C4 amended: a non-finalize write issues a flush exactly when its append
\* brings the buffer to at least batchSize envelopes; the buffer is longer than
\* batchSize at that moment only when the writer's previous call was a flush
\* that failed; a write that leaves the buffer shorter than batchSize returns
\* nil without any remote call.
C4_FlushIffBatchReached ==
    [][WriteStep =>
          /\ (pc' = "flush") <=> (Len(updates') >= batchSize)
          /\ Len(updates') = Len(updates) + 1
          /\ calls' = <<>>
          /\ (pc' = "flush" => b'.UploadRequests = updates')
          /\ (pc' # "flush" => (pc' = "ready" /\ ret' = nil /\ acked' = acked))
          /\ (Len(updates') > batchSize => FlushFailed)]_vars

C4_Witness ==
    /\ pc = "flush"
    /\ op \in WriteOps
    /\ ~finalized
    /\ Len(updates) = batchSize + 1

----------------------------------------------------------------------------
(* C5 *)

\* C5: every successful flush leaves the buffer empty and the writer's token
\* equal to the NextResumeToken of the acknowledged request, which differs
\* from that request's ResumeToken.
C5_SuccessfulFlushRotates ==
    FlushSucceeded =>
        /\ updates = <<>>
        /\ acked # <<>>
        /\ acked[Len(acked)] = b
        /\ resumeToken = b.NextResumeToken
        /\ b.NextResumeToken # b.ResumeToken

C5_Witness ==
    /\ FlushSucceeded
    /\ Len(acked) = 2
    /\ Len(b.UploadRequests) = batchSize

----------------------------------------------------------------------------
(* C6 *)

\* C6: Finalize on a not yet finalized writer sets the latch and starts a
\* flush of a batch that ends with the finalize marker before any UploadBatch
\* attempt is made, and the latch, once set, is never cleared.
C6_FinalizeSetsLatchThenFlushes ==
    [][/\ FinalizeStep =>
             /\ finalized'
             /\ pc' = "flush"
             /\ attempts' = 0
             /\ calls' = <<>>
             /\ updates' = Append(updates, finalizeRequest)
             /\ b'.UploadRequests = updates'
             /\ IsFinalizeMarker(b'.UploadRequests[Len(b'.UploadRequests)])
       /\ finalized => finalized']_vars

C6_Witness ==
    /\ op = "Finalize"
    /\ FlushFailed
    /\ finalized
    /\ calls # <<>>
    /\ Len(updates) > 1

----------------------------------------------------------------------------
(* C7 *)

\* C7: the UploadBatch calls of one flush all carry the request flushUpdates
\* built, and the buffer is cleared and the writer's token rotated only after
\* the successful call: while the flush is in progress both are still what
\* they were when it started.
C7_RetriesIdenticalRotateOnSuccess ==
    /\ (pc = "flush" \/ FlushReturned) =>
           /\ Len(calls) = attempts
           /\ \A i \in 1..Len(calls) : calls[i] = b
    /\ pc = "flush" => (updates = b.UploadRequests /\ resumeToken = b.ResumeToken)

----------------------------------------------------------------------------
(* C8 *)

\* C8: an UploadBatch attempt that fails with a permanent status ends the
\* flush at once; the buffer still holds every envelope of the batch and the
\* write returns that permanent error.
C8_PermanentErrorEndsFlush ==
    [][(pc = "flush" /\ AttemptStep /\ lastRpcErr' \in PermanentCodes) =>
          /\ pc' = "ready"
          /\ ret' = lastRpcErr'
          /\ IsPermanentError(ret')
          /\ updates' = updates
          /\ updates' = b.UploadRequests
          /\ acked' = acked]_vars

C8_Witness ==
    /\ FlushReturned
    /\ lastRpcErr \in PermanentCodes
    /\ attempts > 1
    /\ IsPermanentError(ret)

----------------------------------------------------------------------------
(* C9 *)

\* C9 as stated: a retry loop that ends after a transient failure of its last
\* attempt returns that transient error.
C9_ReturnsLastTransientError ==
    (LoopReturned /\ lastRpcErr \in TransientCodes) => loopErr = lastRpcErr

\* C9 amended: a retry loop whose last attempt failed with a transient status
\* returns the retry engine's own error, never success and never the transient
\* error of the remote call: ErrWaitTimeout exactly when all Steps attempts
\* were used, the context's error otherwise; that error is not permanent, and
\* a write whose flush ended this way returns it.
C9_ExhaustionReturnsTimeout ==
    (LoopReturned /\ lastRpcErr \in TransientCodes) =>
        /\ loopErr # nil
        /\ loopErr # lastRpcErr
        /\ loopErr \in {ErrWaitTimeout, CtxErr}
        /\ (loopErr = ErrWaitTimeout) <=> (attempts = Steps)
        /\ ~IsPermanentError(loopErr)
        /\ FlushReturned => ret = loopErr

C9_Witness ==
    /\ FlushReturned
    /\ attempts = Steps
    /\ lastRpcErr \in TransientCodes
    /\ ret = ErrWaitTimeout

----------------------------------------------------------------------------
(* C10 *)

\* C10: a retry loop runs its remote call at most Steps times, each attempt
\* is made inside the loop, the loop is left by the attempt that succeeds,
\* that fails permanently or that is the last one allowed, and under fairness
\* every loop returns.
C10_RetryLoopTerminates ==
    /\ [][AttemptStep =>
             /\ pc \in InLoop
             /\ attempts' <= Steps
             /\ Len(calls') = Len(calls) + 1
             /\ ((lastRpcErr' = "OK" \/ lastRpcErr' \in PermanentCodes \/ attempts' = Steps)
                    => pc' \notin InLoop)]_vars
    /\ (pc \in InLoop) ~> (pc \notin InLoop)

C10_Witness ==
    /\ pc = "retrieved"
    /\ attempts = Steps
    /\ loopErr = ErrWaitTimeout

----------------------------------------------------------------------------
(* Vocabulary of the handshake properties *)

LastCall == calls[Len(calls)]

RpcsCalled == {calls[i].rpc : i \in 1..Len(calls)}

\* New has returned an error and no writer
NewAborted == pc = "failed" /\ op = "New" /\ ret # nil /\ handshakeToken = NoToken

\* New has returned a writer and no operation has been called on it yet
NewReturnedWriter == pc = "ready" /\ op = "New"

----------------------------------------------------------------------------
(* C11 *)

\* C11: when CreateInvocation failed with already-exists and the touch call
\* sequence ended with a permanent error, New returns no writer, returns the
\* already-exists error of the creation and not the error of the touch, and
\* GetInvocationUploadMetadata has not been called.
C11_PermanentTouchReturnsCreateErr ==
    /\ (pc = "touched" /\ IsPermanentError(loopErr)) =>
           (err = "AlreadyExists" /\ loopErr = lastRpcErr)
    /\ (pc = "failed" /\ calls # <<>> /\ LastCall.rpc = "TouchInvocation"
          /\ lastRpcErr \in PermanentCodes) =>
           /\ NewAborted
           /\ ret = "AlreadyExists"
           /\ IsAlreadyExistsErr(ret)
           /\ (lastRpcErr # "AlreadyExists" => ret # lastRpcErr)
           /\ "GetInvocationUploadMetadata" \notin RpcsCalled

C11_Witness ==
    /\ pc = "failed"
    /\ calls # <<>>
    /\ LastCall.rpc = "TouchInvocation"
    /\ lastRpcErr = "NotFound"
    /\ ret = "AlreadyExists"

----------------------------------------------------------------------------
(* C12 *)

\* C12: when CreateInvocation failed with already-exists and TouchInvocation
\* succeeded, New goes on to GetInvocationUploadMetadata, and the writer it
\* returns once the service has answered holds the service's resume token,
\* not the token New generated for the create call, an empty buffer and an
\* unset finalized latch.
C12_ResumeAdoptsServiceToken ==
    /\ [][(pc = "touched" /\ loopErr = nil) =>
             (err = "AlreadyExists" /\ pc' = "meta" /\ attempts' = 0)]_vars
    /\ [](NewReturnedWriter /\ LastCall.rpc = "GetInvocationUploadMetadata" =>
             /\ resumeToken \in ServiceTokens
             /\ resumeToken # calls[1].ResumeToken
             /\ calls[1].rpc = "CreateInvocation"
             /\ handshakeToken = resumeToken
             /\ ret = nil
             /\ updates = <<>>
             /\ ~finalized)

C12_Witness ==
    /\ NewReturnedWriter
    /\ RpcsCalled = {"CreateInvocation", "TouchInvocation", "GetInvocationUploadMetadata"}
    /\ resumeToken \in ServiceTokens

----------------------------------------------------------------------------
(* C13 *)

\* C13 as stated: New goes on to GetInvocationUploadMetadata only after a
\* touch call sequence that did not fail (loopErr still holds the result of
\* touchInvocation when the metadata loop starts).
C13_TouchFailureAborts ==
    (pc = "meta" /\ attempts = 0 /\ ~ctxDone) => loopErr = nil

\* C13 amended: New aborts - returns an error and no writer, makes no later
\* handshake call and never goes back to CreateInvocation - when the
\* CreateInvocation sequence fails with an error other than already-exists,
\* when the TouchInvocation sequence fails with a permanent error, or when
\* the GetInvocationUploadMetadata sequence fails; a TouchInvocation sequence
\* that fails without a permanent error (attempts used up, context done) does
\* not abort: New goes on to GetInvocationUploadMetadata.
C13_FailedSequenceAborts ==
    [][/\ (pc = "created" /\ loopErr \notin {nil, "AlreadyExists"}) =>
              (NewAborted' /\ ret' = loopErr /\ calls' = calls)
       /\ (pc = "touched" /\ loopErr \in PermanentCodes) =>
              (NewAborted' /\ calls' = calls)
       /\ (pc = "touched" /\ loopErr \notin PermanentCodes) => pc' = "meta"
       /\ (pc = "retrieved" /\ loopErr # nil) =>
              (NewAborted' /\ ret' = loopErr /\ calls' = calls)
       /\ pc = "failed" => FALSE
       /\ pc' = "create" => pc = "create"]_vars

C13_Witness ==
    /\ NewAborted
    /\ RpcsCalled = {"CreateInvocation", "TouchInvocation", "GetInvocationUploadMetadata"}
    /\ attempts = Steps
    /\ ret = ErrWaitTimeout

----------------------------------------------------------------------------
(* C14 *)

\* C14: when the first CreateInvocation call succeeds, New makes exactly that
\* one remote call and returns a writer whose resume token is the
\* InitialResumeToken that call sent.
C14_FreshCreateOneCall ==
    /\ [][(pc = "created" /\ loopErr = nil) => (NewReturnedWriter' /\ calls' = calls)]_vars
    /\ []((op = "New" /\ attempts = 1 /\ lastRpcErr = "OK"
             /\ LastCall.rpc = "CreateInvocation") =>
             /\ pc \in {"created", "ready"}
             /\ Len(calls) = 1
             /\ loopErr = nil
             /\ resumeToken = calls[1].ResumeToken
             /\ (pc = "ready" =>
                    (handshakeToken = calls[1].ResumeToken /\ ret = nil /\ updates = <<>>)))

C14_Witness ==
    /\ NewReturnedWriter
    /\ Len(calls) = 1
    /\ calls[1].rpc = "CreateInvocation"
    /\ handshakeToken = calls[1].ResumeToken

----------------------------------------------------------------------------
(* C15 *)

\* C15: IsPermanentError answers true exactly for already-exists, not-found,
\* invalid-argument, failed-precondition, unimplemented and permission-denied,
\* and false for every other status code, for an error that carries no status
\* and for nil.
C15_PermanentExactlySixCodes ==
    /\ cClass \in {"none", "permanent", "transient"}
    /\ \A i \in 1..Len(cLog) :
           (cLog[i][2] = "permanent") <=>
               (cLog[i][1] \in {"AlreadyExists", "NotFound", "InvalidArgument",
                                "FailedPrecondition", "Unimplemented", "PermissionDenied"})
    /\ cClass # "none" =>
           /\ cLog # <<>>
           /\ cLog[Len(cLog)] = <<cErr, cClass>>
           /\ (cErr \in {nil, "OK", ErrWaitTimeout, CtxErr, ErrAfterFinalized}
                  => cClass = "transient")

C15_Witness ==
    /\ Len(cLog) = 2
    /\ cLog[1] = <<"Unimplemented", "permanent">>
    /\ cLog[2] = <<nil, "transient">>

----------------------------------------------------------------------------
(* Vocabulary of the batch properties *)

RECURSIVE Flatten(_)
\* the envelope lists of a sequence of requests, one after the other
Flatten(reqs) ==
    IF reqs = <<>> THEN <<>> ELSE Head(reqs).UploadRequests \o Flatten(Tail(reqs))

\* the envelopes addUploadRequest has accepted so far, in call order
Accepted ==
    [i \in 1..written |->
        [UploadOperation |-> "CREATE",
         Resource |-> Resources[((i - 1) % Len(Resources)) + 1],
         Id |-> i]]
    \o (IF finalized THEN <<finalizeRequest>> ELSE <<>>)

\* a finalize marker, if any, is the last envelope of the list
MarkerOnlyLast(reqs) ==
    \A i \in 1..Len(reqs) : IsFinalizeMarker(reqs[i]) => i = Len(reqs)

\* every flush started so far has been acknowledged and the writer is idle
AllFlushesSucceeded == pc = "ready" /\ Len(acked) = flushes

----------------------------------------------------------------------------
(* C16 *)

\* C16: while every flush succeeds, N writes leave floor(N/batchSize) batches
\* of exactly batchSize envelopes acknowledged and N mod batchSize envelopes
\* buffered; Finalize then adds one last batch of (N mod batchSize) + 1
\* envelopes that ends with the finalize marker, and a write attempted after
\* it is rejected.
C16_BatchCountAndSizes ==
    AllFlushesSucceeded =>
        /\ ~finalized =>
               /\ flushes = written \div batchSize
               /\ Len(updates) = written % batchSize
               /\ \A i \in 1..flushes : Len(acked[i].UploadRequests) = batchSize
        /\ finalized =>
               /\ flushes = (written \div batchSize) + 1
               /\ updates = <<>>
               /\ \A i \in 1..(flushes - 1) : Len(acked[i].UploadRequests) = batchSize
               /\ Len(acked[flushes].UploadRequests) = (written % batchSize) + 1
               /\ IsFinalizeMarker(acked[flushes].UploadRequests[(written % batchSize) + 1])
               /\ \A i \in 1..(written % batchSize) :
                      ~IsFinalizeMarker(acked[flushes].UploadRequests[i])
               /\ (op \in WriteOps => ret = ErrAfterFinalized)

C16_Witness ==
    /\ AllFlushesSucceeded
    /\ finalized
    /\ written = batchSize + (batchSize \div 2)
    /\ Len(acked) = 2
    /\ Len(acked[1].UploadRequests) = batchSize
    /\ Len(acked[2].UploadRequests) = (batchSize \div 2) + 1
    /\ op = "WriteConfiguredTarget"
    /\ ret = ErrAfterFinalized

----------------------------------------------------------------------------
(* C17 *)

\* C17: a retry loop that finds its context done returns the context's error
\* without another remote call and without running the attempts it has left;
\* a flush aborted this way returns that error to the writer's caller and
\* leaves the buffer as it was; while the context of a running operation is
\* done no remote call is made.
C17_CancelledLoopReturnsAtOnce ==
    [][/\ (pc \in InLoop /\ ctxDone') =>
              /\ pc' \notin InLoop
              /\ loopErr' = CtxErr
              /\ calls' = calls
              /\ attempts' = attempts
              /\ updates' = updates
              /\ acked' = acked
              /\ (pc = "flush" => (pc' = "ready" /\ ret' = CtxErr))
       /\ (ctxDone /\ pc # "ready") => calls' = calls]_vars

C17_Witness ==
    /\ FlushReturned
    /\ ctxDone
    /\ ret = CtxErr
    /\ attempts \in 1..(Steps - 1)
    /\ Len(calls) = attempts
    /\ updates = b.UploadRequests
    /\ Len(updates) = batchSize

----------------------------------------------------------------------------
(* C18 *)

\* C18: in every state the envelopes accepted so far, in call order, are the
\* envelope lists of the acknowledged UploadBatch requests, in order, followed
\* by the buffer: none is dropped, reordered or acknowledged twice.
C18_AcceptedIsAckedThenBuffer ==
    Flatten(acked) \o updates = Accepted

C18_Witness ==
    /\ pc = "ready"
    /\ flushes = 2
    /\ Len(acked) = 1
    /\ Len(acked[1].UploadRequests) = batchSize + 1
    /\ Len(updates) = 2

----------------------------------------------------------------------------
(* C19 *)

\* C19: after the flush started by Finalize has failed the writer is finalized
\* and its buffer still ends with the finalize marker; every later call on it,
\* a second Finalize included, returns the after-finalized error, starts no
\* flush and makes no remote call, and the buffer is never sent again.
C19_FailedFinalizeNeverResent ==
    /\ []((op = "Finalize" /\ FlushFailed) =>
             /\ finalized
             /\ updates = b.UploadRequests
             /\ IsFinalizeMarker(updates[Len(updates)]))
    /\ [][(pc = "ready" /\ finalized /\ updates # <<>>) =>
             /\ IsFinalizeMarker(updates[Len(updates)])
             /\ ret' = ErrAfterFinalized
             /\ pc' = "ready"
             /\ calls' = <<>>
             /\ flushes' = flushes
             /\ b' = NoRequest
             /\ UNCHANGED <<updates, finalized, acked, uuid>>]_vars

C19_Witness ==
    /\ pc = "ready"
    /\ finalized
    /\ op = "Finalize"
    /\ ret = ErrAfterFinalized
    /\ Len(updates) > 1
    /\ IsFinalizeMarker(updates[Len(updates)])
    /\ Len(acked) < flushes

----------------------------------------------------------------------------
(* C20 *)

\* C20: in the buffer, in the request being sent, in every request sent and
\* in every acknowledged request a finalize marker occurs only as the last
\* envelope (so at most once, with no create envelope after it); the marker
\* is in the buffer or acknowledged only if the latch is set; and once the
\* latch is set no write starts another request.
C20_MarkerOnceAndLast ==
    /\ [](/\ MarkerOnlyLast(updates)
          /\ MarkerOnlyLast(b.UploadRequests)
          /\ MarkerOnlyLast(Flatten(acked) \o updates)
          /\ \A i \in 1..Len(calls) : MarkerOnlyLast(calls[i].UploadRequests)
          /\ \A i \in 1..Len(acked) :
                 /\ MarkerOnlyLast(acked[i].UploadRequests)
                 /\ acked[i].UploadRequests # <<>>
          /\ (\E i \in 1..Len(updates) : IsFinalizeMarker(updates[i])) => finalized)
    /\ [][finalized => (flushes' = flushes /\ uuid' = uuid /\ b' \in {b, NoRequest})]_vars

C20_Witness ==
    /\ pc = "flush"
    /\ attempts > 1
    /\ Len(b.UploadRequests) > batchSize
    /\ IsFinalizeMarker(b.UploadRequests[Len(b.UploadRequests)])
    /\ \A i \in 1..Len(calls) : calls[i] = b

-----------------------------------------------------------------------------
(* C21 *)

CloseCalls == {"CloseIssue", "CloseIssueAsNotPlanned", "ClosePullRequest"}

\* the event is one handleClose acts on: open, a new comment, a command in it
Triggering ==
    /\ ev.IssueState = "open"
    /\ ev.Action = "created"
    /\ closeRe(ev.Body) \/ closeNotPlannedRe(ev.Body)

\* GetIssueLabels answered, and with a lifecycle/stale or lifecycle/rotten label
CarriesLifecycleLabel ==
    /\ labelsRes.err = nil
    /\ labelsRes.labels \cap {"lifecycle/stale", "lifecycle/rotten"} # {}

\* the commenter may close: author, collaborator by the client's answer, or
\* the issue is stale or rotten
Permitted == ev.IsAuthor \/ collab.ok \/ CarriesLifecycleLabel

CloseCallMade == \E i \in DOMAIN ghCalls : ghCalls[i].call \in CloseCalls

\* the two queries, then the explanatory comment and nothing else
DeniedOutcome ==
    ghCalls = <<Call("IsCollaborator", ""), Call("GetIssueLabels", ""),
                Call("CreateComment", deniedResponse)>>

\* C21: handleClose makes a close call (CloseIssue, CloseIssueAsNotPlanned or
\* ClosePullRequest) only for an open issue or PR and a newly created comment
\* holding /close or /close not-planned, and only if the commenter is the
\* author, or IsCollaborator returned true, or the issue carries
\* lifecycle/stale or lifecycle/rotten. An IsCollaborator error counts as not
\* a collaborator and a GetIssueLabels error as active: a commenter whom
\* nothing else permits is refused. In the refused case the calls made are the
\* two queries and exactly one comment, the explanatory one, and no close call.
C21_CloseOnlyWhenPermitted ==
    /\ CloseCallMade => Triggering /\ Permitted
    /\ hpc = "done" /\ Triggering =>
        /\ ~Permitted => DeniedOutcome
        /\ collab.err # nil /\ ~ev.IsAuthor /\ ~CarriesLifecycleLabel => DeniedOutcome
        /\ labelsRes.err # nil /\ ~ev.IsAuthor /\ ~collab.ok => DeniedOutcome
        /\ DeniedOutcome => ~Permitted

\* handleClose has refused a commenter for whom both queries failed
C21_Witness ==
    /\ hpc = "done"
    /\ Triggering
    /\ collab.err # nil
    /\ labelsRes.err # nil
    /\ ~ev.IsAuthor
    /\ DeniedOutcome
    /\ ~CloseCallMade

====
